---- MODULE Spec2Model ----
(***************************************************************************)
(* Model of Sources/CRecast/Bridging.cpp: the navigation-mesh baking      *)
(* pipeline (bindingRunBulk), the Detour blob builder                      *)
(* (bindingGenerateDetour) and the vertex/triangle extractor               *)
(* (bindingExtractVertsAndTriangles).  The Recast/Detour stage functions   *)
(* are external: each call's outcome is a nondeterministic choice.         *)
(***************************************************************************)
EXTENDS Integers, Sequences, FiniteSets, TLC

(***************************************************************************)
(* Bridging.h                                                              *)
(***************************************************************************)
BCODE_OK == 0
BCODE_ERR_MEMORY == 1
BCODE_ERR_RASTERIZE == 2
BCODE_ERR_BUILD_COMPACT_HEIGHTFIELD == 3
BCODE_ERR_BUILD_LAYER_REGIONS == 4
BCODE_ERR_BUILD_REGIONS_MONOTONE == 5
BCODE_ERR_BUILD_DISTANCE_FIELD == 6
BCODE_ERR_BUILD_REGIONS == 7
BCODE_ERR_ALLOC_CONTOUR == 8
BCODE_ERR_BUILD_CONTOUR == 9
BCODE_ERR_UNKNOWN == 10
BCODE_ERR_ALLOC_POLYMESH == 11
BCODE_ERR_BUILD_POLY_MESH == 12
BCODE_ERR_ALLOC_DETAIL_POLY_MESH == 13
BCODE_ERR_BUILD_DETAIL_POLY_MESH == 14

BD_OK == 0
BD_ERR_VERTICES == 1
BD_ERR_BUILD_NAVMESH == 2
BD_ERR_ALLOC_NAVMESH == 3

FILTER_LOW_HANGING_OBSTACLES == 1
FILTER_LEDGE_SPANS == 2
FILTER_WALKABLE_LOW_HEIGHT_SPANS == 4
PARTITION_MASK == 24
PARTITION_WATERSHED == 8
PARTITION_MONOTONE == 16
PARTITION_LAYER == 0

\* Constants of the external library that Bridging.cpp compares against.
DT_VERTS_PER_POLYGON == 6
RC_MESH_NULL_IDX == 65535

(***************************************************************************)
(* Bounds of the model                                                     *)
(***************************************************************************)
MaxPolys == 2

\* every value of the five flag bits the header defines
FlagValues == 0 .. 31
\* maxVertsPerPoly: below, at and above the Detour capacity
VertsPerPolyChoices == {3, 4, DT_VERTS_PER_POLYGON + 1}
\* cell size, cell height and origin, in units of 1/10
Grids == { [cs |-> 3, ch |-> 2, bmin |-> <<0, 0, 0>>],
           [cs |-> 10, ch |-> 5, bmin |-> <<-5, 10, 20>>] }

NULL == "NULL"
StageResources == {"hf", "chf", "cset", "pmesh", "dmesh"}
BakeAllocations == StageResources \cup {"result", "tri_areas"}

VARIABLES
    \* ---- bindingRunBulk ----
    pc,            \* position in bindingRunBulk
    flags,         \* argument flags
    cfg,           \* the fields of *cfg the function reads itself
    hf, chf, cset, poly_mesh, detail_mesh,   \* the five local pointers
    heap,          \* allocation -> "unalloc" | "live" | "freed"
    nfree,         \* allocation -> number of release calls applied to it
    badFree,       \* a release was applied to something not live
    result,        \* the fields of *result
    retval,        \* "none" | NULL | "result"
    calls,         \* the external calls made so far, in order
    failedAt,      \* the step whose failure was reported ("none" if none)
    pmesh,         \* contents of the rcPolyMesh
    \* ---- bindingGenerateDetour ----
    dpc, dstatus, dnavData, dblobs, dnavMesh, dcreateCalls, dout, di,
    \* ---- bindingExtractVertsAndTriangles ----
    epc, eret, everts, etris, entris, ek, ei, ej, eheap, eoob, eretval

bakeVars == <<pc, flags, cfg, hf, chf, cset, poly_mesh, detail_mesh, heap,
              nfree, badFree, result, retval, calls, failedAt>>
detourVars == <<dpc, dstatus, dnavData, dblobs, dnavMesh, dcreateCalls, dout, di>>
extractVars == <<epc, eret, everts, etris, entris, ek, ei, ej, eheap, eoob, eretval>>
vars == <<bakeVars, pmesh, detourVars, extractVars>>

(***************************************************************************)
(* Helpers                                                                 *)
(***************************************************************************)
RECURSIVE BitAnd(_, _)
BitAnd(a, b) ==
    IF a = 0 \/ b = 0 THEN 0
    ELSE (a % 2) * (b % 2) + 2 * BitAnd(a \div 2, b \div 2)

\* 0-based read of a C array held as a sequence
At(arr, idx) == arr[idx + 1]

\* rcFree*/free applied to allocation r
Released(h, r) == [h EXCEPT ![r] = "freed"]
Counted(n, r) == [n EXCEPT ![r] = @ + 1]

(***************************************************************************)
(* The polygon meshes rcBuildPolyMesh can hand back.  A polygon has nvp    *)
(* vertex slots followed by nvp neighbour slots; unused vertex slots hold  *)
(* RC_MESH_NULL_IDX.                                                       *)
(***************************************************************************)
PolyVertex(i, j) == 2 * i + j

PolySlots(i, cnt, nvp, npolys) ==
    [s \in 1 .. 2 * nvp |->
        IF s <= nvp
        THEN (IF s - 1 < cnt THEN PolyVertex(i, s - 1) ELSE RC_MESH_NULL_IDX)
        ELSE (IF s = nvp + 1 /\ cnt > 0 /\ npolys > 1
              THEN (i + 1) % npolys ELSE RC_MESH_NULL_IDX)]

RECURSIVE FlatPolys(_, _, _)
FlatPolys(counts, nvp, i) ==
    IF i >= Len(counts) THEN <<>>
    ELSE PolySlots(i, counts[i + 1], nvp, Len(counts)) \o FlatPolys(counts, nvp, i + 1)

MeshVertCount(counts, nvp) ==
    IF Len(counts) = 0 THEN 0 ELSE 2 * (Len(counts) - 1) + nvp

MeshVerts(n) ==
    [s \in 1 .. 3 * n |->
        LET v == (s - 1) \div 3
            c == (s - 1) % 3
        IN  IF c = 0 THEN v + 1 ELSE IF c = 1 THEN v % 3 ELSE 2 * v + 3]

BuiltMesh(counts, nvp, grid) ==
    [ nvp    |-> nvp,
      npolys |-> Len(counts),
      nverts |-> MeshVertCount(counts, nvp),
      verts  |-> MeshVerts(MeshVertCount(counts, nvp)),
      polys  |-> FlatPolys(counts, nvp, 0),
      flags  |-> [p \in 1 .. Len(counts) |-> 0],
      bmin   |-> grid.bmin,
      cs     |-> grid.cs,
      ch     |-> grid.ch ]

PolyCounts(nvp) ==
    UNION { [1 .. n -> 0 .. nvp] : n \in 0 .. MaxPolys }

NoMesh == BuiltMesh(<<>>, 0, [cs |-> 0, ch |-> 0, bmin |-> <<0, 0, 0>>])

(***************************************************************************)
(* Initial values of the per-call state of the two consumers              *)
(***************************************************************************)
DetourIdle ==
    /\ dpc = "idle"
    /\ dstatus = -1
    /\ dnavData = NULL
    /\ dblobs = 0
    /\ dnavMesh = "unalloc"
    /\ dcreateCalls = 0
    /\ dout = [result |-> "unwritten", result_size |-> "unwritten"]
    /\ di = 0

ExtractIdle ==
    /\ epc = "idle"
    /\ eret = [nverts |-> 0, ntris |-> 0, verts |-> NULL, triangles |-> NULL]
    /\ everts = <<>>
    /\ etris = <<>>
    /\ entris = 0
    /\ ek = 0
    /\ ei = 0
    /\ ej = 0
    /\ eheap = [a \in {"ret", "verts", "tris"} |-> "unalloc"]
    /\ eoob = FALSE
    /\ eretval = "none"

(***************************************************************************)
(* bindingRunBulk                                                          *)
(***************************************************************************)
\* variant: the mask is forgotten
partition_unmasked == flags

partition == BitAnd(flags, PARTITION_MASK)

BakeEntry ==
    /\ pc = "alloc_hf"
    /\ flags \in FlagValues
    /\ cfg \in { [cs |-> g.cs, ch |-> g.ch, bmin |-> g.bmin, maxVertsPerPoly |-> n] :
                    g \in Grids, n \in VertsPerPolyChoices }
    /\ hf = NULL /\ chf = NULL /\ cset = NULL
    /\ poly_mesh = NULL /\ detail_mesh = NULL
    /\ heap = [a \in BakeAllocations |-> "unalloc"]
    /\ nfree = [a \in BakeAllocations |-> 0]
    /\ badFree = FALSE
    /\ result = [code |-> 0, cs |-> 0, ch |-> 0, poly_mesh |-> NULL,
                 poly_mesh_detail |-> NULL, max_verts_per_poly |-> 0]
    /\ retval = "none"
    /\ calls = <<>>
    /\ failedAt = "none"
    /\ pmesh = NoMesh

\* lines 45-49
AllocHeightfield ==
    /\ pc = "alloc_hf"
    /\ calls' = Append(calls, "rcAllocHeightfield")
    /\ \E ok \in BOOLEAN :
         IF ok
         THEN /\ hf' = "hf"
              /\ heap' = [heap EXCEPT !["hf"] = "live"]
              /\ pc' = "alloc_result"
              /\ UNCHANGED <<retval, failedAt>>
         ELSE /\ retval' = NULL
              /\ failedAt' = "alloc_hf"
              /\ pc' = "returned"
              /\ UNCHANGED <<hf, heap>>
    /\ UNCHANGED <<flags, cfg, chf, cset, poly_mesh, detail_mesh, nfree, badFree,
                   result, pmesh, detourVars, extractVars>>

\* lines 50-56: calloc is not checked; the stores go through the pointer
AllocResult ==
    /\ pc = "alloc_result"
    /\ \E ok \in BOOLEAN :
         IF ok
         THEN /\ heap' = [heap EXCEPT !["result"] = "live"]
              /\ result' = [code |-> BCODE_ERR_UNKNOWN,
                            cs |-> cfg.cs,
                            ch |-> cfg.ch,
                            poly_mesh |-> NULL,
                            poly_mesh_detail |-> NULL,
                            max_verts_per_poly |-> cfg.maxVertsPerPoly]
              /\ pc' = "create_hf"
         ELSE /\ pc' = "crashed"
              /\ UNCHANGED <<heap, result>>
    /\ UNCHANGED <<flags, cfg, hf, chf, cset, poly_mesh, detail_mesh, nfree, badFree,
                   retval, calls, failedAt, pmesh, detourVars, extractVars>>

\* lines 61-62
CreateHeightfield ==
    /\ pc = "create_hf"
    /\ calls' = Append(calls, "rcCreateHeightfield")
    /\ \E ok \in BOOLEAN :
         IF ok
         THEN /\ pc' = "alloc_tri_areas"
              /\ UNCHANGED failedAt
         ELSE /\ failedAt' = "create_hf"
              /\ pc' = "exit1"
    /\ UNCHANGED <<flags, cfg, hf, chf, cset, poly_mesh, detail_mesh, heap, nfree,
                   badFree, result, retval, pmesh, detourVars, extractVars>>

\* lines 64-68
AllocTriAreas ==
    /\ pc = "alloc_tri_areas"
    /\ \E ok \in BOOLEAN :
         IF ok
         THEN /\ heap' = [heap EXCEPT !["tri_areas"] = "live"]
              /\ pc' = "mark_walkable"
              /\ UNCHANGED <<result, failedAt>>
         ELSE /\ result' = [result EXCEPT !.code = BCODE_ERR_MEMORY]
              /\ failedAt' = "alloc_tri_areas"
              /\ pc' = "exit1"
              /\ UNCHANGED heap
    /\ UNCHANGED <<flags, cfg, hf, chf, cset, poly_mesh, detail_mesh, nfree, badFree,
                   retval, calls, pmesh, detourVars, extractVars>>

\* line 73
MarkWalkableTriangles ==
    /\ pc = "mark_walkable"
    /\ calls' = Append(calls, "rcMarkWalkableTriangles")
    /\ pc' = "rasterize"
    /\ UNCHANGED <<flags, cfg, hf, chf, cset, poly_mesh, detail_mesh, heap, nfree,
                   badFree, result, retval, failedAt, pmesh, detourVars, extractVars>>

\* lines 75-78
RasterizeTriangles ==
    /\ pc = "rasterize"
    /\ calls' = Append(calls, "rcRasterizeTriangles")
    /\ \E ok \in BOOLEAN :
         IF ok
         THEN /\ pc' = "filter_low_hanging"
              /\ UNCHANGED <<result, failedAt>>
         ELSE /\ result' = [result EXCEPT !.code = BCODE_ERR_RASTERIZE]
              /\ failedAt' = "rasterize"
              /\ pc' = "exit1"
    /\ UNCHANGED <<flags, cfg, hf, chf, cset, poly_mesh, detail_mesh, heap, nfree,
                   badFree, retval, pmesh, detourVars, extractVars>>

\* lines 86-87
FilterLowHangingObstacles ==
    /\ pc = "filter_low_hanging"
    /\ calls' = IF BitAnd(flags, FILTER_LOW_HANGING_OBSTACLES) # 0
                THEN Append(calls, "rcFilterLowHangingWalkableObstacles")
                ELSE calls
    /\ pc' = "filter_ledge"
    /\ UNCHANGED <<flags, cfg, hf, chf, cset, poly_mesh, detail_mesh, heap, nfree,
                   badFree, result, retval, failedAt, pmesh, detourVars, extractVars>>

\* lines 88-89
FilterLedgeSpans ==
    /\ pc = "filter_ledge"
    /\ calls' = IF BitAnd(flags, FILTER_LEDGE_SPANS) # 0
                THEN Append(calls, "rcFilterLedgeSpans")
                ELSE calls
    /\ pc' = "filter_low_height"
    /\ UNCHANGED <<flags, cfg, hf, chf, cset, poly_mesh, detail_mesh, heap, nfree,
                   badFree, result, retval, failedAt, pmesh, detourVars, extractVars>>

\* lines 90-91
FilterWalkableLowHeightSpans ==
    /\ pc = "filter_low_height"
    /\ calls' = IF BitAnd(flags, FILTER_WALKABLE_LOW_HEIGHT_SPANS) # 0
                THEN Append(calls, "rcFilterWalkableLowHeightSpans")
                ELSE calls
    /\ pc' = "alloc_chf"
    /\ UNCHANGED <<flags, cfg, hf, chf, cset, poly_mesh, detail_mesh, heap, nfree,
                   badFree, result, retval, failedAt, pmesh, detourVars, extractVars>>

\* lines 99-103
AllocCompactHeightfield ==
    /\ pc = "alloc_chf"
    /\ calls' = Append(calls, "rcAllocCompactHeightfield")
    /\ \E ok \in BOOLEAN :
         IF ok
         THEN /\ chf' = "chf"
              /\ heap' = [heap EXCEPT !["chf"] = "live"]
              /\ pc' = "build_chf"
              /\ UNCHANGED <<result, failedAt>>
         ELSE /\ result' = [result EXCEPT !.code = BCODE_ERR_MEMORY]
              /\ failedAt' = "alloc_chf"
              /\ pc' = "exit1"
              /\ UNCHANGED <<chf, heap>>
    /\ UNCHANGED <<flags, cfg, hf, cset, poly_mesh, detail_mesh, nfree, badFree,
                   retval, pmesh, detourVars, extractVars>>

\* variant: the heightfield pointer is not cleared after the early release
BuildCompactHeightfield_keepPtr ==
    /\ pc = "build_chf"
    /\ \E ok \in BOOLEAN :
         IF ok
         THEN /\ calls' = calls \o <<"rcBuildCompactHeightfield", "rcFreeHeightField">>
              /\ heap' = Released(heap, hf)
              /\ nfree' = Counted(nfree, hf)
              /\ badFree' = (badFree \/ heap[hf] # "live")
              /\ pc' = "erode"
              /\ UNCHANGED <<result, failedAt>>
         ELSE /\ result' = [result EXCEPT !.code = BCODE_ERR_BUILD_COMPACT_HEIGHTFIELD]
              /\ failedAt' = "build_chf"
              /\ pc' = "exit2"
              /\ calls' = Append(calls, "rcBuildCompactHeightfield")
              /\ UNCHANGED <<heap, nfree, badFree>>
    /\ UNCHANGED <<flags, cfg, hf, chf, cset, poly_mesh, detail_mesh, retval, pmesh,
                   detourVars, extractVars>>

\* variant: the heightfield is kept until the unwind
BuildCompactHeightfield_lateRelease ==
    /\ pc = "build_chf"
    /\ calls' = Append(calls, "rcBuildCompactHeightfield")
    /\ \E ok \in BOOLEAN :
         IF ok
         THEN /\ pc' = "erode"
              /\ UNCHANGED <<result, failedAt>>
         ELSE /\ result' = [result EXCEPT !.code = BCODE_ERR_BUILD_COMPACT_HEIGHTFIELD]
              /\ failedAt' = "build_chf"
              /\ pc' = "exit2"
    /\ UNCHANGED <<flags, cfg, hf, chf, cset, poly_mesh, detail_mesh, heap, nfree,
                   badFree, retval, pmesh, detourVars, extractVars>>

\* lines 106-113: the heightfield is released as soon as the build succeeded
BuildCompactHeightfield ==
    /\ pc = "build_chf"
    /\ \E ok \in BOOLEAN :
         IF ok
         THEN /\ IF hf # NULL
                 THEN /\ calls' = calls \o <<"rcBuildCompactHeightfield",
                                              "rcFreeHeightField">>
                      /\ heap' = Released(heap, hf)
                      /\ nfree' = Counted(nfree, hf)
                      /\ badFree' = (badFree \/ heap[hf] # "live")
                      /\ hf' = NULL
                 ELSE /\ calls' = Append(calls, "rcBuildCompactHeightfield")
                      /\ UNCHANGED <<heap, nfree, badFree, hf>>
              /\ pc' = "erode"
              /\ UNCHANGED <<result, failedAt>>
         ELSE /\ result' = [result EXCEPT !.code = BCODE_ERR_BUILD_COMPACT_HEIGHTFIELD]
              /\ failedAt' = "build_chf"
              /\ pc' = "exit2"
              /\ calls' = Append(calls, "rcBuildCompactHeightfield")
              /\ UNCHANGED <<heap, nfree, badFree, hf>>
    /\ UNCHANGED <<flags, cfg, chf, cset, poly_mesh, detail_mesh, retval, pmesh,
                   detourVars, extractVars>>

\* line 116
ErodeWalkableArea ==
    /\ pc = "erode"
    /\ calls' = Append(calls, "rcErodeWalkableArea")
    /\ pc' = "partition"
    /\ UNCHANGED <<flags, cfg, hf, chf, cset, poly_mesh, detail_mesh, heap, nfree,
                   badFree, result, retval, failedAt, pmesh, detourVars, extractVars>>

\* lines 118-124
BuildLayerRegions ==
    /\ pc = "partition"
    /\ partition = PARTITION_LAYER
    /\ calls' = Append(calls, "rcBuildLayerRegions")
    /\ \E ok \in BOOLEAN :
         IF ok
         THEN /\ pc' = "alloc_cset"
              /\ UNCHANGED <<result, failedAt>>
         ELSE /\ result' = [result EXCEPT !.code = BCODE_ERR_BUILD_LAYER_REGIONS]
              /\ failedAt' = "layer_regions"
              /\ pc' = "exit2"
    /\ UNCHANGED <<flags, cfg, hf, chf, cset, poly_mesh, detail_mesh, heap, nfree,
                   badFree, retval, pmesh, detourVars, extractVars>>

\* lines 118, 125-131
BuildRegionsMonotone ==
    /\ pc = "partition"
    /\ partition # PARTITION_LAYER
    /\ partition = PARTITION_MONOTONE
    /\ calls' = Append(calls, "rcBuildRegionsMonotone")
    /\ \E ok \in BOOLEAN :
         IF ok
         THEN /\ pc' = "alloc_cset"
              /\ UNCHANGED <<result, failedAt>>
         ELSE /\ result' = [result EXCEPT !.code = BCODE_ERR_BUILD_REGIONS_MONOTONE]
              /\ failedAt' = "monotone_regions"
              /\ pc' = "exit2"
    /\ UNCHANGED <<flags, cfg, hf, chf, cset, poly_mesh, detail_mesh, heap, nfree,
                   badFree, retval, pmesh, detourVars, extractVars>>

\* lines 118, 132-137
BuildDistanceField ==
    /\ pc = "partition"
    /\ partition # PARTITION_LAYER
    /\ partition # PARTITION_MONOTONE
    /\ partition = PARTITION_WATERSHED
    /\ calls' = Append(calls, "rcBuildDistanceField")
    /\ \E ok \in BOOLEAN :
         IF ok
         THEN /\ pc' = "watershed"
              /\ UNCHANGED <<result, failedAt>>
         ELSE /\ result' = [result EXCEPT !.code = BCODE_ERR_BUILD_DISTANCE_FIELD]
              /\ failedAt' = "distance_field"
              /\ pc' = "exit2"
    /\ UNCHANGED <<flags, cfg, hf, chf, cset, poly_mesh, detail_mesh, heap, nfree,
                   badFree, retval, pmesh, detourVars, extractVars>>

\* variant: the watershed failure reports the monotone builder's code
BuildRegions_wrongCode ==
    /\ pc = "watershed"
    /\ calls' = Append(calls, "rcBuildRegions")
    /\ \E ok \in BOOLEAN :
         IF ok
         THEN /\ pc' = "alloc_cset"
              /\ UNCHANGED <<result, failedAt>>
         ELSE /\ result' = [result EXCEPT !.code = BCODE_ERR_BUILD_REGIONS_MONOTONE]
              /\ failedAt' = "watershed_regions"
              /\ pc' = "exit2"
    /\ UNCHANGED <<flags, cfg, hf, chf, cset, poly_mesh, detail_mesh, heap, nfree,
                   badFree, retval, pmesh, detourVars, extractVars>>

\* lines 138-142
BuildRegions ==
    /\ pc = "watershed"
    /\ calls' = Append(calls, "rcBuildRegions")
    /\ \E ok \in BOOLEAN :
         IF ok
         THEN /\ pc' = "alloc_cset"
              /\ UNCHANGED <<result, failedAt>>
         ELSE /\ result' = [result EXCEPT !.code = BCODE_ERR_BUILD_REGIONS]
              /\ failedAt' = "watershed_regions"
              /\ pc' = "exit2"
    /\ UNCHANGED <<flags, cfg, hf, chf, cset, poly_mesh, detail_mesh, heap, nfree,
                   badFree, retval, pmesh, detourVars, extractVars>>

\* lines 118-143: the if / else-if chain has no final else
NoPartitionBranch ==
    /\ pc = "partition"
    /\ partition # PARTITION_LAYER
    /\ partition # PARTITION_MONOTONE
    /\ partition # PARTITION_WATERSHED
    /\ pc' = "alloc_cset"
    /\ UNCHANGED <<flags, cfg, hf, chf, cset, poly_mesh, detail_mesh, heap, nfree,
                   badFree, result, retval, calls, failedAt, pmesh, detourVars,
                   extractVars>>

\* lines 148-152
AllocContourSet ==
    /\ pc = "alloc_cset"
    /\ calls' = Append(calls, "rcAllocContourSet")
    /\ \E ok \in BOOLEAN :
         IF ok
         THEN /\ cset' = "cset"
              /\ heap' = [heap EXCEPT !["cset"] = "live"]
              /\ pc' = "build_cset"
              /\ UNCHANGED <<result, failedAt>>
         ELSE /\ result' = [result EXCEPT !.code = BCODE_ERR_ALLOC_CONTOUR]
              /\ failedAt' = "alloc_cset"
              /\ pc' = "exit2"
              /\ UNCHANGED <<cset, heap>>
    /\ UNCHANGED <<flags, cfg, hf, chf, poly_mesh, detail_mesh, nfree, badFree,
                   retval, pmesh, detourVars, extractVars>>

\* lines 153-156
BuildContours ==
    /\ pc = "build_cset"
    /\ calls' = Append(calls, "rcBuildContours")
    /\ \E ok \in BOOLEAN :
         IF ok
         THEN /\ pc' = "alloc_pmesh"
              /\ UNCHANGED <<result, failedAt>>
         ELSE /\ result' = [result EXCEPT !.code = BCODE_ERR_BUILD_CONTOUR]
              /\ failedAt' = "build_cset"
              /\ pc' = "exit3"
    /\ UNCHANGED <<flags, cfg, hf, chf, cset, poly_mesh, detail_mesh, heap, nfree,
                   badFree, retval, pmesh, detourVars, extractVars>>

\* lines 162-166
AllocPolyMesh ==
    /\ pc = "alloc_pmesh"
    /\ calls' = Append(calls, "rcAllocPolyMesh")
    /\ \E ok \in BOOLEAN :
         IF ok
         THEN /\ poly_mesh' = "pmesh"
              /\ heap' = [heap EXCEPT !["pmesh"] = "live"]
              /\ pc' = "build_pmesh"
              /\ UNCHANGED <<result, failedAt>>
         ELSE /\ result' = [result EXCEPT !.code = BCODE_ERR_ALLOC_POLYMESH]
              /\ failedAt' = "alloc_pmesh"
              /\ pc' = "exit3"
              /\ UNCHANGED <<poly_mesh, heap>>
    /\ UNCHANGED <<flags, cfg, hf, chf, cset, detail_mesh, nfree, badFree,
                   retval, pmesh, detourVars, extractVars>>

\* lines 167-170: on success the mesh holds polygons of cfg->maxVertsPerPoly slots
BuildPolyMesh ==
    /\ pc = "build_pmesh"
    /\ calls' = Append(calls, "rcBuildPolyMesh")
    /\ \/ /\ \E counts \in PolyCounts(cfg.maxVertsPerPoly) :
               pmesh' = BuiltMesh(counts, cfg.maxVertsPerPoly, cfg)
          /\ pc' = "alloc_dmesh"
          /\ UNCHANGED <<result, failedAt>>
       \/ /\ result' = [result EXCEPT !.code = BCODE_ERR_BUILD_POLY_MESH]
          /\ failedAt' = "build_pmesh"
          /\ pc' = "exit4"
          /\ UNCHANGED pmesh
    /\ UNCHANGED <<flags, cfg, hf, chf, cset, poly_mesh, detail_mesh, heap, nfree,
                   badFree, retval, detourVars, extractVars>>

\* lines 174-178
AllocPolyMeshDetail ==
    /\ pc = "alloc_dmesh"
    /\ calls' = Append(calls, "rcAllocPolyMeshDetail")
    /\ \E ok \in BOOLEAN :
         IF ok
         THEN /\ detail_mesh' = "dmesh"
              /\ heap' = [heap EXCEPT !["dmesh"] = "live"]
              /\ pc' = "build_dmesh"
              /\ UNCHANGED <<result, failedAt>>
         ELSE /\ result' = [result EXCEPT !.code = BCODE_ERR_ALLOC_DETAIL_POLY_MESH]
              /\ failedAt' = "alloc_dmesh"
              /\ pc' = "exit4"
              /\ UNCHANGED <<detail_mesh, heap>>
    /\ UNCHANGED <<flags, cfg, hf, chf, cset, poly_mesh, nfree, badFree,
                   retval, pmesh, detourVars, extractVars>>

\* lines 179-182
BuildPolyMeshDetail ==
    /\ pc = "build_dmesh"
    /\ calls' = Append(calls, "rcBuildPolyMeshDetail")
    /\ \E ok \in BOOLEAN :
         IF ok
         THEN /\ pc' = "success"
              /\ UNCHANGED <<result, failedAt>>
         ELSE /\ result' = [result EXCEPT !.code = BCODE_ERR_BUILD_DETAIL_POLY_MESH]
              /\ failedAt' = "build_dmesh"
              /\ pc' = "exit5"
    /\ UNCHANGED <<flags, cfg, hf, chf, cset, poly_mesh, detail_mesh, heap, nfree,
                   badFree, retval, pmesh, detourVars, extractVars>>

\* variant: the contour set is not released on success
ReturnSuccess_keepContours ==
    /\ pc = "success"
    /\ calls' = Append(calls, "rcFreeCompactHeightfield")
    /\ heap' = Released(heap, chf)
    /\ nfree' = Counted(nfree, chf)
    /\ badFree' = (badFree \/ heap[chf] # "live")
    /\ chf' = NULL
    /\ result' = [result EXCEPT !.code = BCODE_OK,
                                !.poly_mesh = poly_mesh,
                                !.poly_mesh_detail = detail_mesh]
    /\ retval' = "result"
    /\ pc' = "returned"
    /\ UNCHANGED <<flags, cfg, hf, cset, poly_mesh, detail_mesh, failedAt, pmesh,
                   detourVars, extractVars>>

\* lines 183-210
ReturnSuccess ==
    /\ pc = "success"
    /\ calls' = calls \o <<"rcFreeCompactHeightfield", "rcFreeContourSet">>
    /\ heap' = Released(Released(heap, chf), cset)
    /\ nfree' = Counted(Counted(nfree, chf), cset)
    /\ badFree' = (badFree \/ heap[chf] # "live" \/ heap[cset] # "live")
    /\ chf' = NULL
    /\ cset' = NULL
    /\ result' = [result EXCEPT !.code = BCODE_OK,
                                !.poly_mesh = poly_mesh,
                                !.poly_mesh_detail = detail_mesh]
    /\ retval' = "result"
    /\ pc' = "returned"
    /\ UNCHANGED <<flags, cfg, hf, poly_mesh, detail_mesh, failedAt, pmesh,
                   detourVars, extractVars>>

\* one label of the unwind: release allocation p if the pointer is set
Unwind(label, p, fn, next) ==
    /\ pc = label
    /\ IF p # NULL
       THEN /\ calls' = Append(calls, fn)
            /\ heap' = Released(heap, p)
            /\ nfree' = Counted(nfree, p)
            /\ badFree' = (badFree \/ heap[p] # "live")
       ELSE UNCHANGED <<calls, heap, nfree, badFree>>
    /\ pc' = next
    /\ UNCHANGED <<flags, cfg, hf, chf, cset, poly_mesh, detail_mesh, result,
                   failedAt, pmesh, detourVars, extractVars>>

\* lines 212-214
Exit5 == Unwind("exit5", detail_mesh, "rcFreePolyMeshDetail", "exit4") /\ UNCHANGED retval

\* lines 215-217
Exit4 == Unwind("exit4", poly_mesh, "rcFreePolyMesh", "exit3") /\ UNCHANGED retval

\* variant: exit3 falls through without releasing the contour set
Exit3_noRelease ==
    /\ pc = "exit3"
    /\ pc' = "exit2"
    /\ UNCHANGED <<flags, cfg, hf, chf, cset, poly_mesh, detail_mesh, heap, nfree,
                   badFree, result, retval, calls, failedAt, pmesh, detourVars,
                   extractVars>>

\* lines 218-220
Exit3 == Unwind("exit3", cset, "rcFreeContourSet", "exit2") /\ UNCHANGED retval

\* lines 221-223
Exit2 == Unwind("exit2", chf, "rcFreeCompactHeightfield", "exit1") /\ UNCHANGED retval

\* lines 224-227
Exit1 == Unwind("exit1", hf, "rcFreeHeightField", "returned") /\ retval' = "result"

BakeNext ==
    \/ AllocHeightfield
    \/ AllocResult
    \/ CreateHeightfield
    \/ AllocTriAreas
    \/ MarkWalkableTriangles
    \/ RasterizeTriangles
    \/ FilterLowHangingObstacles
    \/ FilterLedgeSpans
    \/ FilterWalkableLowHeightSpans
    \/ AllocCompactHeightfield
    \/ BuildCompactHeightfield
    \/ ErodeWalkableArea
    \/ BuildLayerRegions
    \/ BuildRegionsMonotone
    \/ BuildDistanceField
    \/ BuildRegions
    \/ NoPartitionBranch
    \/ AllocContourSet
    \/ BuildContours
    \/ AllocPolyMesh
    \/ BuildPolyMesh
    \/ AllocPolyMeshDetail
    \/ BuildPolyMeshDetail
    \/ ReturnSuccess
    \/ Exit5
    \/ Exit4
    \/ Exit3
    \/ Exit2
    \/ Exit1

Init == BakeEntry /\ DetourIdle /\ ExtractIdle

Next == BakeNext

Spec == Init /\ [][Next]_vars

(***************************************************************************)
(* The state a successful bindingRunBulk leaves behind (flags 0), which    *)
(* is what the two consumers are handed.                                   *)
(***************************************************************************)
SuccessfulCalls ==
    <<"rcAllocHeightfield", "rcCreateHeightfield", "rcMarkWalkableTriangles",
      "rcRasterizeTriangles", "rcAllocCompactHeightfield",
      "rcBuildCompactHeightfield", "rcFreeHeightField", "rcErodeWalkableArea",
      "rcBuildLayerRegions", "rcAllocContourSet", "rcBuildContours",
      "rcAllocPolyMesh", "rcBuildPolyMesh", "rcAllocPolyMeshDetail",
      "rcBuildPolyMeshDetail", "rcFreeCompactHeightfield", "rcFreeContourSet">>

BakeSucceeded ==
    /\ pc = "returned"
    /\ flags = 0
    /\ cfg \in { [cs |-> g.cs, ch |-> g.ch, bmin |-> g.bmin, maxVertsPerPoly |-> n] :
                    g \in Grids, n \in VertsPerPolyChoices }
    /\ hf = NULL /\ chf = NULL /\ cset = NULL
    /\ poly_mesh = "pmesh" /\ detail_mesh = "dmesh"
    /\ heap = [a \in BakeAllocations |->
                 IF a \in {"hf", "chf", "cset"} THEN "freed" ELSE "live"]
    /\ nfree = [a \in BakeAllocations |->
                 IF a \in {"hf", "chf", "cset"} THEN 1 ELSE 0]
    /\ badFree = FALSE
    /\ result = [code |-> BCODE_OK, cs |-> cfg.cs, ch |-> cfg.ch,
                 poly_mesh |-> "pmesh", poly_mesh_detail |-> "dmesh",
                 max_verts_per_poly |-> cfg.maxVertsPerPoly]
    /\ retval = "result"
    /\ calls = SuccessfulCalls
    /\ failedAt = "none"
    /\ \E counts \in PolyCounts(cfg.maxVertsPerPoly) :
         pmesh = BuiltMesh(counts, cfg.maxVertsPerPoly, cfg)

(***************************************************************************)
(* bindingGenerateDetour                                                   *)
(***************************************************************************)
DetourEntry ==
    /\ dpc = "d_entry"
    /\ dstatus = -1
    /\ dnavData = NULL
    /\ dblobs = 0
    /\ dnavMesh = "unalloc"
    /\ dcreateCalls = 0
    /\ dout = [result |-> "unwritten", result_size |-> "unwritten"]
    /\ di = 0

\* variant: the capacity test is off by one
D_CheckVerts_offByOne ==
    /\ dpc = "d_entry"
    /\ IF result.max_verts_per_poly > DT_VERTS_PER_POLYGON + 1
       THEN /\ dstatus' = BD_ERR_VERTICES
            /\ dpc' = "d_returned"
       ELSE /\ dpc' = "d_flags"
            /\ UNCHANGED dstatus
    /\ di' = 0
    /\ UNCHANGED <<bakeVars, pmesh, dnavData, dblobs, dnavMesh, dcreateCalls, dout,
                   extractVars>>

\* lines 250-256
D_CheckVerts ==
    /\ dpc = "d_entry"
    /\ IF result.max_verts_per_poly > DT_VERTS_PER_POLYGON
       THEN /\ dstatus' = BD_ERR_VERTICES
            /\ dpc' = "d_returned"
       ELSE /\ dpc' = "d_flags"
            /\ UNCHANGED dstatus
    /\ di' = 0
    /\ UNCHANGED <<bakeVars, pmesh, dnavData, dblobs, dnavMesh, dcreateCalls, dout,
                   extractVars>>

\* variant: the store goes to the polygon index array
D_SetFlag_wrongArray ==
    /\ dpc = "d_flags"
    /\ di < pmesh.npolys
    /\ pmesh' = [pmesh EXCEPT !.polys[di + 1] = 1]
    /\ di' = di + 1
    /\ UNCHANGED <<bakeVars, dpc, dstatus, dnavData, dblobs, dnavMesh, dcreateCalls,
                   dout, extractVars>>

\* lines 263-265, one iteration
D_SetFlag ==
    /\ dpc = "d_flags"
    /\ di < pmesh.npolys
    /\ pmesh' = [pmesh EXCEPT !.flags[di + 1] = 1]
    /\ di' = di + 1
    /\ UNCHANGED <<bakeVars, dpc, dstatus, dnavData, dblobs, dnavMesh, dcreateCalls,
                   dout, extractVars>>

\* lines 263, 267-298: the loop ends, the parameters are filled in and
\* dtCreateNavMeshData is called; on success it allocates the blob
D_CreateNavMeshData ==
    /\ dpc = "d_flags"
    /\ ~(di < pmesh.npolys)
    /\ dcreateCalls' = dcreateCalls + 1
    /\ \E ok \in BOOLEAN :
         IF ok
         THEN /\ dnavData' = "blob"
              /\ dblobs' = dblobs + 1
              /\ dpc' = "d_alloc_navmesh"
         ELSE /\ dpc' = "d_create_failed"
              /\ UNCHANGED <<dnavData, dblobs>>
    /\ UNCHANGED <<bakeVars, pmesh, dstatus, dnavMesh, dout, di, extractVars>>

\* lines 299-300: the call is repeated and its outcome ignored
D_CreateFailed ==
    /\ dpc = "d_create_failed"
    /\ dcreateCalls' = dcreateCalls + 1
    /\ \E ok \in BOOLEAN :
         IF ok
         THEN /\ dnavData' = "blob"
              /\ dblobs' = dblobs + 1
         ELSE UNCHANGED <<dnavData, dblobs>>
    /\ dstatus' = BD_ERR_BUILD_NAVMESH
    /\ dpc' = "d_returned"
    /\ UNCHANGED <<bakeVars, pmesh, dnavMesh, dout, di, extractVars>>

\* lines 303-307
D_AllocNavMesh ==
    /\ dpc = "d_alloc_navmesh"
    /\ \E ok \in BOOLEAN :
         IF ok
         THEN /\ dnavMesh' = "live"
              /\ dpc' = "d_store"
              /\ UNCHANGED <<dblobs, dstatus>>
         ELSE /\ dblobs' = dblobs - 1
              /\ dstatus' = BD_ERR_ALLOC_NAVMESH
              /\ dpc' = "d_returned"
              /\ UNCHANGED dnavMesh
    /\ UNCHANGED <<bakeVars, pmesh, dnavData, dcreateCalls, dout, di, extractVars>>

\* lines 308-310
D_Store ==
    /\ dpc = "d_store"
    /\ dout' = [result |-> dnavData, result_size |-> "navDataSize"]
    /\ dstatus' = BD_OK
    /\ dpc' = "d_returned"
    /\ UNCHANGED <<bakeVars, pmesh, dnavData, dblobs, dnavMesh, dcreateCalls, di,
                   extractVars>>

DetourNext ==
    \/ D_CheckVerts
    \/ D_SetFlag
    \/ D_CreateNavMeshData
    \/ D_CreateFailed
    \/ D_AllocNavMesh
    \/ D_Store

InitDetour == BakeSucceeded /\ DetourEntry /\ ExtractIdle

SpecDetour == InitDetour /\ [][DetourNext]_vars

(***************************************************************************)
(* bindingExtractVertsAndTriangles and freeVertsAndTriangles               *)
(***************************************************************************)
ExtractEntry ==
    /\ epc = "e_alloc_ret"
    /\ eret = [nverts |-> 0, ntris |-> 0, verts |-> NULL, triangles |-> NULL]
    /\ everts = <<>>
    /\ etris = <<>>
    /\ entris = 0
    /\ ek = 0
    /\ ei = 0
    /\ ej = 0
    /\ eheap = [a \in {"ret", "verts", "tris"} |-> "unalloc"]
    /\ eoob = FALSE
    /\ eretval = "none"

\* calloc'ed array of n zeroes
Zeroes(n) == [s \in 1 .. n |-> 0]

\* variant: the neighbour half of each polygon is forgotten in the stride
PolySlot_singleStride(i, j) == At(pmesh.polys, i * pmesh.nvp + j)

\* variant: polygons whose flag is still zero are treated as empty
PolySlot_flagged(i, j) ==
    IF pmesh.flags[i + 1] = 0 THEN RC_MESH_NULL_IDX
    ELSE At(pmesh.polys, i * pmesh.nvp * 2 + j)

\* p[j] of polygon i: p = &pmesh->polys[i*nvp*2]
PolySlot(i, j) == At(pmesh.polys, i * pmesh.nvp * 2 + j)

\* lines 378-389, called on a non-null record: the heap after the call
FreedVertsAndTriangles(h) ==
    [a \in DOMAIN h |->
        IF a = "ret" THEN "freed"
        ELSE IF a = "verts" /\ eret.verts # NULL THEN "freed"
        ELSE IF a = "tris" /\ eret.triangles # NULL THEN "freed"
        ELSE h[a]]

\* lines 317-318: the record's calloc is not checked
E_AllocRet ==
    /\ epc = "e_alloc_ret"
    /\ \E ok \in BOOLEAN :
         eheap' = IF ok THEN [eheap EXCEPT !["ret"] = "live"] ELSE eheap
    /\ epc' = "e_alloc_verts"
    /\ UNCHANGED <<bakeVars, pmesh, detourVars, eret, everts, etris, entris, ek, ei,
                   ej, eoob, eretval>>

\* lines 322-331: a null record is dereferenced on either branch
E_AllocVerts ==
    /\ epc = "e_alloc_verts"
    /\ \E ok \in BOOLEAN :
         IF eheap["ret"] # "live"
         THEN /\ epc' = "e_crashed"
              /\ eheap' = IF ok THEN [eheap EXCEPT !["verts"] = "live"] ELSE eheap
              /\ UNCHANGED <<eret, everts, eretval>>
         ELSE IF ok
         THEN /\ eheap' = [eheap EXCEPT !["verts"] = "live"]
              /\ everts' = Zeroes(pmesh.nverts * 4)
              /\ eret' = [eret EXCEPT !.verts = "verts", !.nverts = pmesh.nverts]
              /\ epc' = "e_size"
              /\ UNCHANGED eretval
         ELSE /\ eheap' = FreedVertsAndTriangles(eheap)
              /\ eretval' = NULL
              /\ epc' = "e_returned"
              /\ UNCHANGED <<eret, everts>>
    /\ entris' = 0
    /\ ei' = 0
    /\ ej' = 2
    /\ UNCHANGED <<bakeVars, pmesh, detourVars, etris, ek, eoob>>

\* variant: the sizing pass counts triangles, not indices
E_SizeStep_perTriangle ==
    /\ epc = "e_size"
    /\ ei < pmesh.npolys
    /\ IF ej < pmesh.nvp /\ At(pmesh.polys, ei * pmesh.nvp * 2 + ej) # RC_MESH_NULL_IDX
       THEN /\ entris' = entris + 1
            /\ ej' = ej + 1
            /\ UNCHANGED ei
       ELSE /\ ei' = ei + 1
            /\ ej' = 2
            /\ UNCHANGED entris
    /\ UNCHANGED <<bakeVars, pmesh, detourVars, epc, eret, everts, etris, ek, eheap,
                   eoob, eretval>>

\* lines 332-340, one test of the inner loop: either count a triangle or
\* move on to the next polygon
E_SizeStep ==
    /\ epc = "e_size"
    /\ ei < pmesh.npolys
    /\ IF ej < pmesh.nvp /\ PolySlot(ei, ej) # RC_MESH_NULL_IDX
       THEN /\ entris' = entris + 3
            /\ ej' = ej + 1
            /\ UNCHANGED ei
       ELSE /\ ei' = ei + 1
            /\ ej' = 2
            /\ UNCHANGED entris
    /\ UNCHANGED <<bakeVars, pmesh, detourVars, epc, eret, everts, etris, ek, eheap,
                   eoob, eretval>>

\* lines 332, 341-355
E_AllocTris ==
    /\ epc = "e_size"
    /\ ~(ei < pmesh.npolys)
    /\ \E ok \in BOOLEAN :
         IF ok
         THEN /\ eheap' = [eheap EXCEPT !["tris"] = "live"]
              /\ etris' = Zeroes(entris)
              /\ eret' = [eret EXCEPT !.triangles = "tris", !.ntris = entris]
              /\ epc' = "e_verts"
              /\ UNCHANGED eretval
         ELSE /\ eheap' = FreedVertsAndTriangles(eheap)
              /\ eretval' = NULL
              /\ epc' = "e_returned"
              /\ UNCHANGED <<eret, etris>>
    /\ ek' = 0
    /\ ei' = 0
    /\ UNCHANGED <<bakeVars, pmesh, detourVars, everts, entris, ej, eoob>>

\* variant: the vertical coordinate is the voxel's bottom face
WorldVertex_bottomFace(i) ==
    << pmesh.bmin[1] + At(pmesh.verts, i * 3) * pmesh.cs,
       pmesh.bmin[2] + At(pmesh.verts, i * 3 + 1) * pmesh.ch + 1,
       pmesh.bmin[3] + At(pmesh.verts, i * 3 + 2) * pmesh.cs,
       0 >>

\* the world position of mesh vertex i, lines 357-361 (units of 1/10)
WorldVertex(i) ==
    << pmesh.bmin[1] + At(pmesh.verts, i * 3) * pmesh.cs,
       pmesh.bmin[2] + (At(pmesh.verts, i * 3 + 1) + 1) * pmesh.ch + 1,
       pmesh.bmin[3] + At(pmesh.verts, i * 3 + 2) * pmesh.cs,
       0 >>

\* a[k], a[k+1], ... := vals; a store past the end of a corrupts the heap
Stored(a, k, vals) ==
    [s \in 1 .. Len(a) |->
        IF s - 1 >= k /\ s - 1 < k + Len(vals) THEN vals[s - k] ELSE a[s]]

\* lines 356-362, one vertex
E_VertStep ==
    /\ epc = "e_verts"
    /\ ei < pmesh.nverts
    /\ everts' = Stored(everts, ek, WorldVertex(ei))
    /\ eoob' = (eoob \/ ek + 4 > Len(everts))
    /\ ek' = ek + 4
    /\ ei' = ei + 1
    /\ UNCHANGED <<bakeVars, pmesh, detourVars, epc, eret, etris, entris, ej, eheap,
                   eretval>>

\* lines 356, 364: the vertex loop ends, the cursor is reset
E_VertsDone ==
    /\ epc = "e_verts"
    /\ ~(ei < pmesh.nverts)
    /\ ek' = 0
    /\ ei' = 0
    /\ ej' = 2
    /\ epc' = "e_tris"
    /\ UNCHANGED <<bakeVars, pmesh, detourVars, eret, everts, etris, entris, eheap,
                   eoob, eretval>>

\* lines 365-374, one test of the inner loop: either emit a triangle or
\* move on to the next polygon
E_TriStep ==
    /\ epc = "e_tris"
    /\ ei < pmesh.npolys
    /\ IF ej < pmesh.nvp /\ PolySlot(ei, ej) # RC_MESH_NULL_IDX
       THEN /\ etris' = Stored(etris, ek,
                               <<PolySlot(ei, 0), PolySlot(ei, ej - 1), PolySlot(ei, ej)>>)
            /\ eoob' = (eoob \/ ek + 3 > Len(etris))
            /\ ek' = ek + 3
            /\ ej' = ej + 1
            /\ UNCHANGED ei
       ELSE /\ ei' = ei + 1
            /\ ej' = 2
            /\ UNCHANGED <<etris, eoob, ek>>
    /\ UNCHANGED <<bakeVars, pmesh, detourVars, epc, eret, everts, entris, eheap,
                   eretval>>

\* lines 365, 375
E_Return ==
    /\ epc = "e_tris"
    /\ ~(ei < pmesh.npolys)
    /\ eretval' = "ret"
    /\ epc' = "e_returned"
    /\ UNCHANGED <<bakeVars, pmesh, detourVars, eret, everts, etris, entris, ek, ei,
                   ej, eheap, eoob>>

ExtractNext ==
    \/ E_AllocRet
    \/ E_AllocVerts
    \/ E_SizeStep
    \/ E_AllocTris
    \/ E_VertStep
    \/ E_VertsDone
    \/ E_TriStep
    \/ E_Return

InitExtract == BakeSucceeded /\ DetourIdle /\ ExtractEntry

SpecExtract == InitExtract /\ [][ExtractNext]_vars

(***************************************************************************)
(* Properties of bindingRunBulk                                            *)
(***************************************************************************)
Returned == pc = "returned"

CalledSet == { calls[n] : n \in 1 .. Len(calls) }

IsStrategyCall(c) ==
    c \in {"rcBuildLayerRegions", "rcBuildRegionsMonotone",
           "rcBuildDistanceField", "rcBuildRegions"}

StrategyCalls == SelectSeq(calls, IsStrategyCall)

\* the region builders proper (the distance field is only a prerequisite)
RegionBuilders == {"rcBuildLayerRegions", "rcBuildRegionsMonotone", "rcBuildRegions"}

RegionBuildersRun ==
    Cardinality({ n \in 1 .. Len(calls) : calls[n] \in RegionBuilders })

\* value of the partition selector, bits 3 and 4 of flags
Selector == (flags \div 8) % 4

PastPartition == "rcErodeWalkableArea" \in CalledSet /\ pc \notin {"partition", "watershed"}

\* C1: every return of bindingRunBulk delivers an envelope, and the envelope
\* either has code BCODE_OK with both meshes non-null or a code other than
\* BCODE_OK with both meshes null.
C1_EnvelopeMatchesStatus ==
    Returned =>
        /\ retval = "result"
        /\ \/ /\ result.code = BCODE_OK
              /\ result.poly_mesh # NULL
              /\ result.poly_mesh_detail # NULL
           \/ /\ result.code # BCODE_OK
              /\ result.poly_mesh = NULL
              /\ result.poly_mesh_detail = NULL

C2_FailurePoints ==
    {"create_hf", "rasterize", "alloc_chf", "build_chf", "layer_regions",
     "monotone_regions", "distance_field", "watershed_regions", "alloc_cset",
     "build_cset", "alloc_pmesh", "build_pmesh", "alloc_dmesh", "build_dmesh"}

\* C2: when bindingRunBulk returns after a failure at any of its failure
\* points, none of the five stage resources is still allocated.
C2_NoStageResourceHeldAfterFailure ==
    (Returned /\ failedAt \in C2_FailurePoints) =>
        \A r \in StageResources : heap[r] # "live"

\* the last failure point: all five resources were allocated and are released
C2_Witness ==
    /\ Returned
    /\ failedAt = "build_dmesh"
    /\ \A r \in StageResources : heap[r] = "freed"

\* C3: on every path each stage resource is released at most once, and a
\* release is only applied to a resource that is allocated at that moment.
C3_ReleasedAtMostOnce ==
    /\ ~badFree
    /\ \A r \in StageResources :
         /\ nfree[r] <= 1
         /\ (heap[r] = "freed") = (nfree[r] = 1)

\* the unwind ran through exit5..exit1 after the early heightfield release
C3_Witness ==
    /\ Returned
    /\ failedAt = "build_dmesh"
    /\ \A r \in StageResources : nfree[r] = 1

\* C4: after a fully successful run the heightfield, compact heightfield and
\* contour set are released, the two meshes are live and are the ones in the
\* result, the code is BCODE_OK and cs, ch, max_verts_per_poly are the
\* config's.
C4_SuccessResult ==
    (Returned /\ failedAt = "none") =>
        /\ retval = "result"
        /\ heap["hf"] = "freed" /\ heap["chf"] = "freed" /\ heap["cset"] = "freed"
        /\ heap["pmesh"] = "live" /\ heap["dmesh"] = "live"
        /\ result.poly_mesh = "pmesh" /\ result.poly_mesh_detail = "dmesh"
        /\ result.code = BCODE_OK
        /\ result.cs = cfg.cs
        /\ result.ch = cfg.ch
        /\ result.max_verts_per_poly = cfg.maxVertsPerPoly

C4_Witness ==
    /\ Returned
    /\ failedAt = "none"
    /\ result.code = BCODE_OK
    /\ pmesh.npolys > 0

\* C5: selector 0 runs only the layer builder, selector value 16 only the
\* monotone builder, selector value 8 the distance field and then, only if
\* that succeeded, the watershed builder; the filter bits play no part.
C5_SelectorPicksStrategy ==
    /\ (pc = "watershed") =>
          (Selector = 1 /\ StrategyCalls = <<"rcBuildDistanceField">>)
    /\ PastPartition =>
          /\ (Selector = 0) => StrategyCalls = <<"rcBuildLayerRegions">>
          /\ (Selector = 2) => StrategyCalls = <<"rcBuildRegionsMonotone">>
          /\ (Selector = 1) =>
                StrategyCalls = IF failedAt = "distance_field"
                                THEN <<"rcBuildDistanceField">>
                                ELSE <<"rcBuildDistanceField", "rcBuildRegions">>

\* watershed chosen with all three filter bits set, both calls made
C5_Witness ==
    /\ pc = "alloc_cset"
    /\ flags = PARTITION_WATERSHED + 7
    /\ StrategyCalls = <<"rcBuildDistanceField", "rcBuildRegions">>

\* C6: whatever the flags, once contour tracing starts exactly one region
\* builder has been run on the compact heightfield.
C6_ExactlyOneStrategyBeforeContours ==
    ("rcAllocContourSet" \in CalledSet) => RegionBuildersRun = 1

C7_FailurePoints == C2_FailurePoints \cup {"alloc_tri_areas"}

\* the step each status code names
StepOfCode(c) ==
    CASE c = BCODE_ERR_MEMORY -> "alloc_chf"
      [] c = BCODE_ERR_RASTERIZE -> "rasterize"
      [] c = BCODE_ERR_BUILD_COMPACT_HEIGHTFIELD -> "build_chf"
      [] c = BCODE_ERR_BUILD_LAYER_REGIONS -> "layer_regions"
      [] c = BCODE_ERR_BUILD_REGIONS_MONOTONE -> "monotone_regions"
      [] c = BCODE_ERR_BUILD_DISTANCE_FIELD -> "distance_field"
      [] c = BCODE_ERR_BUILD_REGIONS -> "watershed_regions"
      [] c = BCODE_ERR_ALLOC_CONTOUR -> "alloc_cset"
      [] c = BCODE_ERR_BUILD_CONTOUR -> "build_cset"
      [] c = BCODE_ERR_UNKNOWN -> "create_hf"
      [] c = BCODE_ERR_ALLOC_POLYMESH -> "alloc_pmesh"
      [] c = BCODE_ERR_BUILD_POLY_MESH -> "build_pmesh"
      [] c = BCODE_ERR_ALLOC_DETAIL_POLY_MESH -> "alloc_dmesh"
      [] c = BCODE_ERR_BUILD_DETAIL_POLY_MESH -> "build_dmesh"
      [] OTHER -> "none"

\* C7 as stated: a failure never returns BCODE_OK and the code alone tells
\* which step failed (one step per code).
C7_CodeIdentifiesStep ==
    (Returned /\ failedAt \in C7_FailurePoints) =>
        /\ result.code # BCODE_OK
        /\ StepOfCode(result.code) = failedAt

\* the steps a code can stand for: BCODE_ERR_MEMORY is shared by two
StepsOfCode(c) ==
    IF c = BCODE_ERR_MEMORY THEN {"alloc_tri_areas", "alloc_chf"}
    ELSE {StepOfCode(c)}

\* C7 (amended): a failure never returns BCODE_OK and the code tells which
\* step failed, except that BCODE_ERR_MEMORY stands for both the triangle-area
\* buffer allocation and the compact-heightfield allocation.
C7_CodeIdentifiesStepUpToMemory ==
    (Returned /\ failedAt \in C7_FailurePoints) =>
        /\ result.code # BCODE_OK
        /\ failedAt \in StepsOfCode(result.code)

\* the shared code, returned for the step the one-step decoding does not name
C7_Witness ==
    /\ Returned
    /\ failedAt = "alloc_tri_areas"
    /\ result.code = BCODE_ERR_MEMORY

(***************************************************************************)
(* Properties of bindingGenerateDetour                                     *)
(***************************************************************************)
\* C8: with max_verts_per_poly above DT_VERTS_PER_POLYGON the call returns
\* BD_ERR_VERTICES having done nothing: no serialization call, no polygon flag
\* changed, nothing allocated, *result and *result_size unwritten.
C8_OversizedPolygonsRejectedFirst ==
    (result.max_verts_per_poly > DT_VERTS_PER_POLYGON /\ dpc # "d_entry") =>
        /\ dpc = "d_returned"
        /\ dstatus = BD_ERR_VERTICES
        /\ dcreateCalls = 0
        /\ \A q \in 1 .. pmesh.npolys : pmesh.flags[q] = 0
        /\ dblobs = 0
        /\ dnavData = NULL
        /\ dnavMesh = "unalloc"
        /\ dout = [result |-> "unwritten", result_size |-> "unwritten"]

C8_Witness ==
    /\ dpc = "d_returned"
    /\ dstatus = BD_ERR_VERTICES
    /\ result.max_verts_per_poly = DT_VERTS_PER_POLYGON + 1
    /\ pmesh.npolys > 0

(***************************************************************************)
(* Properties of bindingExtractVertsAndTriangles                           *)
(***************************************************************************)
\* slot j of polygon i, read straight from the mesh layout
MeshSlot(i, j) == pmesh.polys[i * 2 * pmesh.nvp + j + 1]

\* k of the claim: slots 0..k-1 hold vertices and slot k is the sentinel or
\* k = nvp
ValidCount(i) ==
    CHOOSE k \in 0 .. pmesh.nvp :
        /\ \A m \in 0 .. k - 1 : MeshSlot(i, m) # RC_MESH_NULL_IDX
        /\ (k = pmesh.nvp \/ MeshSlot(i, k) = RC_MESH_NULL_IDX)

\* the fan of polygon i: (p[0], p[j-1], p[j]) for j = 2 .. k-1
FanOf(i) ==
    IF ValidCount(i) < 3 THEN <<>>
    ELSE [s \in 1 .. 3 * (ValidCount(i) - 2) |->
            LET j == 2 + (s - 1) \div 3
                c == (s - 1) % 3
            IN  IF c = 0 THEN MeshSlot(i, 0)
                ELSE IF c = 1 THEN MeshSlot(i, j - 1)
                ELSE MeshSlot(i, j)]

RECURSIVE FansFrom(_)
FansFrom(i) == IF i >= pmesh.npolys THEN <<>> ELSE FanOf(i) \o FansFrom(i + 1)

ExtractSucceeded == epc = "e_returned" /\ eretval = "ret"

\* C9: the index buffer returned is, polygon after polygon, the fan
\* (p[0], p[j-1], p[j]), j = 2 .. k-1, of each polygon with k >= 3 valid
\* vertices, and nothing for a polygon with fewer than 3.
C9_FanTriangulation ==
    ExtractSucceeded => etris = FansFrom(0)

\* a polygon yielding two or more triangles next to one yielding none
C9_Witness ==
    /\ ExtractSucceeded
    /\ \E a, b \in 0 .. pmesh.npolys - 1 :
         /\ ValidCount(a) > 3
         /\ ValidCount(b) \in 1 .. 2
    /\ Len(etris) >= 6

\* C10: the length computed by the sizing pass is the number of indices the
\* emission pass writes: the cursor never passes the end of the buffer, ends
\* exactly there, and ntris is that length, 3 per triangle.
C10_SizingMatchesEmission ==
    /\ (epc \in {"e_tris", "e_returned"}) => (~eoob /\ ek <= Len(etris))
    /\ ExtractSucceeded =>
          /\ ek = Len(etris)
          /\ Len(etris) = entris
          /\ eret.ntris = ek
          /\ ek % 3 = 0

C10_Witness ==
    /\ ExtractSucceeded
    /\ pmesh.npolys > 1
    /\ ek = eret.ntris
    /\ ek >= 9

\* C11: when an allocation of the extractor fails (the record, the vertex
\* buffer or the index buffer) the call returns NULL with nothing it
\* allocated still live, it never goes through a pointer whose allocation
\* failed, and the BakeResult and its mesh stay as they were.
C11_AllocationFailureHandled ==
    /\ epc # "e_crashed"
    /\ (epc = "e_returned" /\ eretval = NULL) =>
          \A a \in DOMAIN eheap : eheap[a] # "live"
    /\ (epc = "e_returned" /\ eretval = "ret") =>
          \A a \in DOMAIN eheap : eheap[a] = "live"
    /\ result.code = BCODE_OK
    /\ \A q \in 1 .. pmesh.npolys : pmesh.flags[q] = 0

(***************************************************************************)
(* Order of the stage calls of bindingRunBulk                              *)
(***************************************************************************)
IsStageCall(c) ==
    c \notin {"rcFreeHeightField", "rcFreeCompactHeightfield", "rcFreeContourSet",
              "rcFreePolyMesh", "rcFreePolyMeshDetail"}

\* the allocate/build/filter calls made so far, releases left out
StageCalls == SelectSeq(calls, IsStageCall)

FilterCalls ==
    (IF flags % 2 = 1 THEN <<"rcFilterLowHangingWalkableObstacles">> ELSE <<>>)
    \o (IF (flags \div 2) % 2 = 1 THEN <<"rcFilterLedgeSpans">> ELSE <<>>)
    \o (IF (flags \div 4) % 2 = 1 THEN <<"rcFilterWalkableLowHeightSpans">> ELSE <<>>)

\* the fixed order, with the partition step done by the calls in part
FixedOrder(part) ==
    <<"rcAllocHeightfield", "rcCreateHeightfield", "rcMarkWalkableTriangles",
      "rcRasterizeTriangles">>
    \o FilterCalls
    \o <<"rcAllocCompactHeightfield", "rcBuildCompactHeightfield",
         "rcErodeWalkableArea">>
    \o part
    \o <<"rcAllocContourSet", "rcBuildContours", "rcAllocPolyMesh",
         "rcBuildPolyMesh", "rcAllocPolyMeshDetail", "rcBuildPolyMeshDetail">>

PartitionSteps ==
    { <<"rcBuildLayerRegions">>, <<"rcBuildRegionsMonotone">>,
      <<"rcBuildDistanceField", "rcBuildRegions">> }

IsPrefix(a, b) == Len(a) <= Len(b) /\ SubSeq(b, 1, Len(a)) = a

\* C12: the stage calls made so far are always a prefix of the fixed order
\* (filters only where their bit is set, the partition step between erosion
\* and contour allocation), and once a step has failed the function is only
\* unwinding or has returned.
C12_StageCallsInFixedOrder ==
    /\ \E part \in PartitionSteps : IsPrefix(StageCalls, FixedOrder(part))
    /\ (failedAt # "none") =>
          pc \in {"exit5", "exit4", "exit3", "exit2", "exit1", "returned"}

\* C13: from the erosion step onward the heightfield is no longer allocated,
\* and heightfield and compact heightfield are both allocated only while the
\* compact heightfield is being built (or its failed build is being unwound).
C13_HeightfieldReleasedAfterCompaction ==
    /\ (pc = "erode" \/ "rcErodeWalkableArea" \in CalledSet) => heap["hf"] = "freed"
    /\ (heap["hf"] = "live" /\ heap["chf"] = "live") =>
          (pc = "build_chf" \/ (pc = "exit2" /\ failedAt = "build_chf"))

\* about to erode: compact heightfield built, heightfield already gone
C13_Witness ==
    /\ pc = "erode"
    /\ heap["hf"] = "freed"
    /\ heap["chf"] = "live"
    /\ calls[Len(calls)] = "rcFreeHeightField"

\* what a return hands over to the caller: the record, and on success the
\* two meshes it points to
HandedToCaller ==
    IF retval = "result"
    THEN {"result"} \cup ({result.poly_mesh, result.poly_mesh_detail} \ {NULL})
    ELSE {}

\* C14: at return every allocation bindingRunBulk made and does not hand to
\* the caller (the five stage resources and tri_areas) has been released,
\* exactly once.
C14_EveryAllocationReleased ==
    Returned =>
        \A a \in BakeAllocations \ HandedToCaller :
            /\ heap[a] # "live"
            /\ nfree[a] <= 1

(***************************************************************************)
(* Further properties of bindingGenerateDetour                             *)
(***************************************************************************)
\* C15: dtCreateNavMeshData is invoked at most once in a call, and a call
\* that returns BD_ERR_BUILD_NAVMESH has invoked it exactly once.
C15_SingleSerializationAttempt ==
    /\ dcreateCalls <= 1
    /\ (dpc = "d_returned" /\ dstatus = BD_ERR_BUILD_NAVMESH) => dcreateCalls = 1

\* everything in the polygon mesh except the per-polygon flags
MeshButFlags ==
    [ nvp |-> pmesh.nvp, npolys |-> pmesh.npolys, nverts |-> pmesh.nverts,
      verts |-> pmesh.verts, polys |-> pmesh.polys, bmin |-> pmesh.bmin,
      cs |-> pmesh.cs, ch |-> pmesh.ch ]

\* the BakeResult record and the allocation state of what it points to
ResultAndMeshes == <<result, heap, nfree, poly_mesh, detail_mesh>>

PassedVertexCheck == dpc = "d_returned" /\ dstatus # BD_ERR_VERTICES

\* C16: a call that passes the vertex-capacity test leaves flags[i] = 1 for
\* every polygon whether or not serialization succeeds, and no step of the
\* call changes anything else in the BakeResult or its meshes.
C16_OnlyFlagsWritten ==
    /\ [](PassedVertexCheck => \A q \in 1 .. pmesh.npolys : pmesh.flags[q] = 1)
    /\ [][MeshButFlags' = MeshButFlags /\ ResultAndMeshes' = ResultAndMeshes]_vars

\* serialization failed, yet both polygons carry the flag
C16_Witness ==
    /\ dpc = "d_returned"
    /\ dstatus = BD_ERR_BUILD_NAVMESH
    /\ pmesh.npolys > 1
    /\ \A q \in 1 .. pmesh.npolys : pmesh.flags[q] = 1
    /\ heap["pmesh"] = "live" /\ heap["dmesh"] = "live"

(***************************************************************************)
(* bindingGenerateDetour and bindingExtractVertsAndTriangles running       *)
(* concurrently on one successful BakeResult                               *)
(***************************************************************************)
InitConcurrent == BakeSucceeded /\ DetourEntry /\ ExtractEntry

ConcurrentNext ==
    \/ DetourNext
    \/ ExtractNext

SpecConcurrent == InitConcurrent /\ [][ConcurrentNext]_vars

\* what the extractor run on its own returns for this mesh: 4 entries per
\* vertex and the fans of the polygons
SoloVertices ==
    [s \in 1 .. 4 * pmesh.nverts |->
        LET v == (s - 1) \div 4
            c == (s - 1) % 4
        IN  IF c = 0 THEN pmesh.bmin[1] + pmesh.verts[3 * v + 1] * pmesh.cs
            ELSE IF c = 1 THEN pmesh.bmin[2] + (pmesh.verts[3 * v + 2] + 1) * pmesh.ch + 1
            ELSE IF c = 2 THEN pmesh.bmin[3] + pmesh.verts[3 * v + 3] * pmesh.cs
            ELSE 0]

SoloTriangles == FansFrom(0)

\* C17: under every interleaving the extractor returns the buffers it
\* returns when run alone; the blob builder's steps write nothing shared but
\* the polygon flags and nothing of the extractor's, and the extractor's
\* steps write nothing shared at all.
C17_ExtractionUnaffectedByBlobBuilder ==
    /\ [](ExtractSucceeded => (everts = SoloVertices /\ etris = SoloTriangles))
    /\ [][(detourVars' # detourVars) =>
            (MeshButFlags' = MeshButFlags /\ extractVars' = extractVars
             /\ bakeVars' = bakeVars)]_vars
    /\ [][(extractVars' # extractVars) =>
            (pmesh' = pmesh /\ bakeVars' = bakeVars /\ detourVars' = detourVars)]_vars

\* the extractor has finished while the blob builder is half way through
\* the flags
C17_Witness ==
    /\ ExtractSucceeded
    /\ dpc = "d_flags"
    /\ di = 1
    /\ pmesh.npolys > 1
    /\ pmesh.flags[1] = 1 /\ pmesh.flags[2] = 0
    /\ Len(etris) >= 6

(***************************************************************************)
(* The vertex buffer of bindingExtractVertsAndTriangles                    *)
(***************************************************************************)
\* C18: on success nverts is the mesh's vertex count and the vertex buffer
\* has 4 entries per mesh vertex, in order: bmin[0] + x*cs,
\* bmin[1] + (y+1)*ch + epsilon, bmin[2] + z*cs and a padding 0
\* (lengths in units of 1/10, epsilon = 1 unit).
C18_VertexBuffer ==
    ExtractSucceeded =>
        /\ eret.nverts = pmesh.nverts
        /\ Len(everts) = 4 * pmesh.nverts
        /\ \A v \in 0 .. pmesh.nverts - 1 :
             LET x == pmesh.verts[3 * v + 1]
                 y == pmesh.verts[3 * v + 2]
                 z == pmesh.verts[3 * v + 3]
             IN  /\ everts[4 * v + 1] = pmesh.bmin[1] + x * pmesh.cs
                 /\ everts[4 * v + 2] = pmesh.bmin[2] + (y + 1) * pmesh.ch + 1
                 /\ everts[4 * v + 3] = pmesh.bmin[3] + z * pmesh.cs
                 /\ everts[4 * v + 4] = 0

\* a mesh with a non-zero origin and at least four vertices was extracted
C18_Witness ==
    /\ ExtractSucceeded
    /\ pmesh.nverts >= 4
    /\ pmesh.bmin = <<-5, 10, 20>>
    /\ everts[1] # everts[5]
    /\ everts[6] # everts[7]

(***************************************************************************)
(* Allocations of bindingGenerateDetour                                    *)
(***************************************************************************)
\* C19: at return the only allocation of the call still live is the blob
\* handed out through *result, and only with status BD_OK: with an error
\* status no blob remains allocated, and the dtNavMesh object never does.
C19_NothingLeftButReturnedBlob ==
    (dpc = "d_returned") =>
        /\ dnavMesh # "live"
        /\ (dstatus = BD_OK) => (dblobs = 1 /\ dout.result = "blob")
        /\ (dstatus # BD_OK) => dblobs = 0

(***************************************************************************)
(* bindingRelease, called by the owner of a non-null result                *)
(***************************************************************************)
\* lines 230-238
BindingRelease ==
    /\ pc = "returned"
    /\ retval = "result"
    /\ LET pm == result.poly_mesh
           dm == result.poly_mesh_detail
           h1 == IF pm # NULL THEN Released(heap, pm) ELSE heap
           n1 == IF pm # NULL THEN Counted(nfree, pm) ELSE nfree
           b1 == pm # NULL /\ heap[pm] # "live"
           h2 == IF dm # NULL THEN Released(h1, dm) ELSE h1
           n2 == IF dm # NULL THEN Counted(n1, dm) ELSE n1
           b2 == dm # NULL /\ h1[dm] # "live"
       IN  /\ heap' = Released(h2, "result")
           /\ nfree' = Counted(n2, "result")
           /\ badFree' = (badFree \/ b1 \/ b2 \/ h2["result"] # "live")
           /\ calls' = calls
                       \o (IF pm # NULL THEN <<"rcFreePolyMesh">> ELSE <<>>)
                       \o (IF dm # NULL THEN <<"rcFreePolyMeshDetail">> ELSE <<>>)
                       \o <<"free">>
    /\ pc' = "released"
    /\ UNCHANGED <<flags, cfg, hf, chf, cset, poly_mesh, detail_mesh, result, retval,
                   failedAt, pmesh, detourVars, extractVars>>

LifecycleNext ==
    \/ BakeNext
    \/ BindingRelease

SpecLifecycle == Init /\ [][LifecycleNext]_vars

\* C20: one bindingRelease on a non-null result releases the record exactly
\* once, releases each mesh exactly once if and only if the bake succeeded,
\* never releases anything the rollback had released, and leaves no
\* allocation of the bake live.
C20_ReleaseFreesEverythingOnce ==
    (pc = "released") =>
        /\ nfree["result"] = 1
        /\ ~badFree
        /\ \A a \in BakeAllocations : nfree[a] <= 1
        /\ (result.code = BCODE_OK) =
              ("rcFreePolyMesh" \in CalledSet /\ "rcFreePolyMeshDetail" \in CalledSet
               /\ calls[Len(calls) - 2] = "rcFreePolyMesh"
               /\ calls[Len(calls) - 1] = "rcFreePolyMeshDetail")
        /\ \A a \in BakeAllocations : heap[a] # "live"

====
